---- MODULE Spec2Model ----
(***************************************************************************)
(* Model of the MonadBFT research scrapers:                                *)
(*   - DocsScraper  (docs_scraper.py): recursive documentation crawl       *)
(*   - BlogScraper  (blog_scraper.py): blog listing scrape                 *)
(*   - ArxivScraper (arxiv_scraper.py): paper search and de-duplication    *)
(***************************************************************************)
EXTENDS Integers, Sequences, FiniteSets, TLC

(***************************************************************************)
(* Bounds of the model                                                     *)
(***************************************************************************)
\* total number of hyperlinks (<a href>) the crawled site serves
MaxLinks == 3
\* number of scrape_docs invocations on one DocsScraper object
MaxCrawls == 2

(***************************************************************************)
(* URLs.  A URL is a record of netloc, path and fragment; "" is an absent  *)
(* component.  An href is the same record, with "" netloc for a relative   *)
(* reference.                                                              *)
(***************************************************************************)
Url(d, p, f) == [dom |-> d, path |-> p, frag |-> f]

DocsDom == "docs.monad.xyz"
OtherDom == "other.example"

\* DocsScraper.BASE_URL
BASE_URL == Url(DocsDom, "/", "")

Paths == {"/", "/a", "/b", "/c"}

\* the URLs a crawl can be started from
Seeds == {Url(DocsDom, "/", ""), Url(DocsDom, "/a", ""), Url(OtherDom, "/", "")}

\* the hrefs the pages of the site are built from
Hrefs ==
  { Url("", "/", ""),          \* <a href="/">
    Url("", "/a", ""),         \* <a href="/a">
    Url("", "/b", "s"),        \* <a href="/b#s">
    Url("", "", "s"),          \* <a href="#s">
    Url(DocsDom, "/b", ""),       \* <a href="https://docs.monad.xyz/b">
    Url(OtherDom, "/a", "") }     \* <a href="https://other.example/a">

\* the pages (fragment-less URLs) of the modelled web
PageUrls == { Url(d, p, "") : d \in {DocsDom, OtherDom}, p \in Paths }

\* urllib.parse.urljoin(base, href)
urljoin(base, href) ==
  IF href.dom # ""
    THEN Url(href.dom, href.path, href.frag)
    ELSE IF href.path # ""
      THEN Url(base.dom, href.path, href.frag)
      ELSE Url(base.dom, base.path,
               IF href.frag # "" THEN href.frag ELSE base.frag)

\* urllib.parse.urlparse(u).netloc
netloc(u) == u.dom

\* '#' in full_url
HasHash(u) == u.frag # ""

\* the page a URL addresses: the URL without its fragment
PageOf(u) == Url(u.dom, u.path, "")

(***************************************************************************)
(* State                                                                   *)
(***************************************************************************)
VARIABLES
  \* ---- the web site (environment) ----
  site,           \* page URL -> sequence of hrefs of the page, once served
  served,         \* page URLs whose HTML has been fixed
  \* ---- DocsScraper ----
  visited_urls,   \* self.visited_urls
  pc,             \* position in scrape_docs
  start_url,      \* argument of the running scrape_docs
  pages,          \* local pages
  urls_to_visit,  \* local urls_to_visit
  url,            \* local url
  response,       \* outcome of the latest session.get: "none"|"ok"|"error"
  crawls,         \* number of scrape_docs invocations so far
  returned,       \* the values returned by the scrape_docs invocations
  \* ---- observation of the crawl ----
  fetches,        \* URL -> number of session.get on it in the running crawl
  sinceSleep,     \* session.get calls since the latest time.sleep(1)
  failed,         \* URLs whose _scrape_page returned None in the running crawl
  scraped,        \* URLs whose _scrape_page returned a DocPage in the running crawl
  errors,         \* session.get calls that failed in the running crawl
  enqueued,       \* URLs put on urls_to_visit in the running crawl
  dequeued,       \* URLs popped from urls_to_visit in the running crawl
  \* ---- BlogScraper and its main ----
  bpc,            \* position in blog_scraper.main / scrape_category_labs
  articles,       \* soup.find_all('article', class_='post') of the listing
  art,            \* index of the article the for loop is at
  posts,          \* local posts
  nsaved,         \* posts of main's list handed to save_post so far
  blog_files,     \* files of BlogScraper.output_dir
  blog_saved,     \* the posts handed to save_post, in order
  filter_on,      \* args.filter_monadbft of the run
  to_save,        \* main's posts, after the optional filter
  blog_gets,      \* session.get calls of the BlogScraper so far
  \* ---- ArxivScraper and its main ----
  apc,            \* position in arxiv_scraper.main / fetch_related_papers
  query,          \* index of the query the for loop is at
  all_papers,     \* local all_papers
  seen,           \* local seen
  unique_papers,  \* local unique_papers
  scanned,        \* papers of all_papers the de-duplication loop has passed
  entries_served, \* feed entries the API has served so far
  paper_files,    \* files of ArxivScraper.output_dir
  paper_saved,    \* the papers handed to save_metadata, in order
  last_feed,      \* the entries of the feed the latest search was answered with
  search_resp,    \* outcome of the latest session.get of search_papers
  found,          \* the value the latest search_papers returned
  xml,            \* the response text the latest fetch_paper was answered with
  fetch_resp,     \* outcome of the latest session.get of fetch_paper
  fetched,        \* the outcome of the latest fetch_paper
  \* ---- docs_scraper.main saving into DocsScraper.output_dir ----
  spc,            \* position in save_all_pages
  save_runs,      \* runs of main against the output directory so far
  save_pages,     \* argument pages of the running save_all_pages
  save_done,      \* pages of save_pages handed to save_page so far
  doc_files,      \* files of DocsScraper.output_dir
  doc_saved       \* the pages handed to save_page, in order, over all runs

crawlVars == <<site, served, visited_urls, pc, start_url, pages,
               urls_to_visit, url, response, crawls, returned,
               fetches, sinceSleep, failed, scraped, errors,
               enqueued, dequeued>>

blogVars == <<bpc, articles, art, posts, nsaved, blog_files, blog_saved,
              filter_on, to_save, blog_gets>>

searchVars == <<last_feed, search_resp, found>>

fetchVars == <<xml, fetch_resp, fetched>>

arxivVars == <<apc, query, all_papers, seen, unique_papers, scanned,
               entries_served, paper_files, paper_saved, searchVars,
               fetchVars>>

saveVars == <<spc, save_runs, save_pages, save_done, doc_files, doc_saved>>

vars == <<crawlVars, blogVars, arxivVars, saveVars>>

NoUrl == Url("", "", "")

\* DocPage(url=url, ...): the record of a page; its other fields are a
\* function of the page's HTML, which is fixed per URL
DocPage(u) == [url |-> u]

None == [kind |-> "none"]

(***************************************************************************)
(* DocsScraper                                                             *)
(***************************************************************************)
\* _scrape_page without its try/except: the exception leaves the method
ScrapePageRaises(u, resp) ==
  IF resp = "ok" THEN [kind |-> "page", page |-> DocPage(u)]
                 ELSE [kind |-> "raise"]

\* _scrape_page whose except branch returns an empty DocPage instead of None
ScrapePageBlank(u, resp) == [kind |-> "page", page |-> DocPage(u)]

\* _scrape_page: the DocPage on a good response, None on any exception
_scrape_page(u, resp) ==
  IF resp = "ok" THEN [kind |-> "page", page |-> DocPage(u)] ELSE None

\* the resolved link targets of the page at u, in document order
FullUrls(u, hrefs) == [i \in 1..Len(hrefs) |-> urljoin(u, hrefs[i])]

\* the filter of _find_doc_links
KeepLink(full_url, visited) ==
  /\ netloc(full_url) = netloc(BASE_URL)
  /\ ~HasHash(full_url)
  /\ full_url \notin visited

\* _find_doc_links: [] on any exception, else the kept links in order
_find_doc_links(u, resp, hrefs, visited) ==
  IF resp = "ok"
    THEN SelectSeq(FullUrls(u, hrefs), LAMBDA f : KeepLink(f, visited))
    ELSE <<>>

\* urls_to_visit.pop(0): what is left on the list
Rest(q) == Tail(q)

Range(s) == { s[i] : i \in 1..Len(s) }

\* the number of hyperlinks on the pages of P
RECURSIVE LinksOn(_)
LinksOn(P) ==
  IF P = {} THEN 0
  ELSE LET u == CHOOSE v \in P : TRUE
       IN Len(site[u]) + LinksOn(P \ {u})

TotalLinks == LinksOn(PageUrls)

\* the number of hyperlinks of a site
RECURSIVE LinksOf(_, _)
LinksOf(st, P) ==
  IF P = {} THEN 0
  ELSE LET u == CHOOSE v \in P : TRUE
       IN Len(st[u]) + LinksOf(st, P \ {u})

LinksOnSite(st) == LinksOf(st, PageUrls)

\* the link lists a page not served before may turn out to have
RECURSIVE SeqsUpTo(_, _)
SeqsUpTo(S, n) ==
  IF n = 0 THEN {<<>>}
  ELSE LET shorter == SeqsUpTo(S, n - 1)
       IN shorter \cup { Append(s, x) : s \in { t \in shorter : Len(t) = n - 1 }, x \in S }

\* DocsScraper.__init__ and the caller before the first scrape_docs
InitScraper ==
  /\ visited_urls = {}
  /\ pc = "idle"
  /\ start_url = NoUrl
  /\ pages = <<>>
  /\ urls_to_visit = <<>>
  /\ url = NoUrl
  /\ response = "none"
  /\ crawls = 0
  /\ returned = <<>>
  /\ fetches = [u \in PageUrls |-> 0]
  /\ sinceSleep = 0
  /\ failed = {}
  /\ scraped = {}
  /\ errors = 0
  /\ enqueued = 0
  /\ dequeued = 0

\* a site none of whose pages has been served yet
InitCrawl ==
  /\ site = [u \in PageUrls |-> <<>>]
  /\ served = {}
  /\ InitScraper

\* scrape_docs(start_url): lines 63-67
StartCrawl ==
  /\ pc = "idle"
  /\ crawls < MaxCrawls
  /\ \E seed \in Seeds :
       /\ start_url' = seed
       /\ urls_to_visit' = <<seed>>
  /\ pages' = <<>>
  /\ crawls' = crawls + 1
  /\ pc' = "loop"
  /\ fetches' = [u \in PageUrls |-> 0]
  /\ sinceSleep' = 0
  /\ failed' = {}
  /\ scraped' = {}
  /\ errors' = 0
  /\ enqueued' = 1
  /\ dequeued' = 0
  /\ url' = NoUrl
  /\ response' = "none"
  /\ UNCHANGED <<site, served, visited_urls, returned>>
  /\ UNCHANGED <<blogVars, arxivVars, saveVars>>

\* lines 69-73: pop the head; an already visited URL is skipped (continue)
PopVisited ==
  /\ pc = "loop"
  /\ urls_to_visit # <<>>
  /\ Head(urls_to_visit) \in visited_urls
  /\ url' = Head(urls_to_visit)
  /\ urls_to_visit' = Rest(urls_to_visit)
  /\ dequeued' = dequeued + 1
  /\ pc' = "loop"
  /\ UNCHANGED <<site, served, visited_urls, start_url, pages, response,
                 crawls, returned, fetches, sinceSleep, failed, scraped,
                 errors, enqueued>>
  /\ UNCHANGED <<blogVars, arxivVars, saveVars>>

\* lines 69-75: pop the head; a URL not visited goes on to _scrape_page
PopFresh ==
  /\ pc = "loop"
  /\ urls_to_visit # <<>>
  /\ Head(urls_to_visit) \notin visited_urls
  /\ url' = Head(urls_to_visit)
  /\ urls_to_visit' = Rest(urls_to_visit)
  /\ dequeued' = dequeued + 1
  /\ pc' = "scrape"
  /\ UNCHANGED <<site, served, visited_urls, start_url, pages, response,
                 crawls, returned, fetches, sinceSleep, failed, scraped,
                 errors, enqueued>>
  /\ UNCHANGED <<blogVars, arxivVars, saveVars>>

\* the scrape step had it marked the URL visited before testing the page
ScrapePageMarksFirst(resp) ==
  /\ pc = "scrape"
  /\ response' = resp
  /\ fetches' = [fetches EXCEPT ![url] = @ + 1]
  /\ sinceSleep' = sinceSleep + 1
  /\ visited_urls' = visited_urls \cup {url}
  /\ LET page == _scrape_page(url, resp)
     IN CASE page.kind = "page" ->
               /\ pages' = Append(pages, page.page)
               /\ scraped' = scraped \cup {url}
               /\ pc' = "links"
               /\ UNCHANGED failed
          [] page.kind = "none" ->
               /\ failed' = failed \cup {url}
               /\ pc' = "sleep"
               /\ UNCHANGED <<pages, scraped>>
          [] OTHER ->
               /\ pc' = "raised"
               /\ UNCHANGED <<pages, failed, scraped>>
  /\ errors' = IF resp = "error" THEN errors + 1 ELSE errors
  /\ UNCHANGED <<site, served, start_url, urls_to_visit, url, crawls,
                 returned, enqueued, dequeued>>
  /\ UNCHANGED <<blogVars, arxivVars, saveVars>>

\* lines 76-80: page = self._scrape_page(url); if page: append, mark visited
ScrapePage(resp) ==
  /\ pc = "scrape"
  /\ response' = resp
  /\ fetches' = [fetches EXCEPT ![url] = @ + 1]
  /\ sinceSleep' = sinceSleep + 1
  /\ LET page == _scrape_page(url, resp)
     IN CASE page.kind = "page" ->
               /\ pages' = Append(pages, page.page)
               /\ visited_urls' = visited_urls \cup {url}
               /\ scraped' = scraped \cup {url}
               /\ pc' = "links"
               /\ UNCHANGED failed
          [] page.kind = "none" ->
               /\ failed' = failed \cup {url}
               /\ pc' = "sleep"
               /\ UNCHANGED <<pages, visited_urls, scraped>>
          [] OTHER ->
               \* an exception leaving _scrape_page leaves scrape_docs too
               /\ pc' = "raised"
               /\ UNCHANGED <<pages, visited_urls, failed, scraped>>
  /\ errors' = IF resp = "error" THEN errors + 1 ELSE errors
  /\ UNCHANGED <<site, served, start_url, urls_to_visit, url, crawls,
                 returned, enqueued, dequeued>>
  /\ UNCHANGED <<blogVars, arxivVars, saveVars>>

ScrapePageOk == ScrapePage("ok")

ScrapePageError == ScrapePage("error")

\* the HTML a GET of page u may carry: what the site served before, or, for
\* a page served for the first time, any link list the site has room for
Served(u, resp) ==
  IF u \in served \/ resp = "error"
    THEN {site[u]}
    ELSE SeqsUpTo(Hrefs, MaxLinks - TotalLinks)

\* lines 83-84: new_urls = self._find_doc_links(url); extend urls_to_visit.
\* The page's HTML is fixed the first time the site serves it.
FindLinks(resp) ==
  /\ pc = "links"
  /\ response' = resp
  /\ fetches' = [fetches EXCEPT ![url] = @ + 1]
  /\ sinceSleep' = sinceSleep + 1
  /\ \E hrefs \in Served(url, resp) :
       /\ site' = [site EXCEPT ![url] = hrefs]
       /\ served' = IF resp = "ok" THEN served \cup {url} ELSE served
       /\ LET new_urls == _find_doc_links(url, resp, hrefs, visited_urls)
          IN /\ urls_to_visit' = urls_to_visit \o new_urls
             /\ enqueued' = enqueued + Len(new_urls)
  /\ errors' = IF resp = "error" THEN errors + 1 ELSE errors
  /\ pc' = "sleep"
  /\ UNCHANGED <<visited_urls, start_url, pages, url, crawls, returned,
                 failed, scraped, dequeued>>
  /\ UNCHANGED <<blogVars, arxivVars, saveVars>>

FindLinksOk == FindLinks("ok")

FindLinksError == FindLinks("error")

\* line 87: time.sleep(1)
Sleep ==
  /\ pc = "sleep"
  /\ sinceSleep' = 0
  /\ pc' = "loop"
  /\ UNCHANGED <<site, served, visited_urls, start_url, pages, urls_to_visit,
                 url, response, crawls, returned, fetches, failed, scraped,
                 errors, enqueued, dequeued>>
  /\ UNCHANGED <<blogVars, arxivVars, saveVars>>

\* line 89: return pages
Return ==
  /\ pc = "loop"
  /\ urls_to_visit = <<>>
  /\ returned' = Append(returned,
                        [seed |-> start_url, pages |-> pages,
                         clean |-> errors = 0])
  /\ pc' = "idle"
  /\ UNCHANGED <<site, served, visited_urls, start_url, pages, urls_to_visit,
                 url, response, crawls, fetches, sinceSleep, failed, scraped,
                 errors, enqueued, dequeued>>
  /\ UNCHANGED <<blogVars, arxivVars, saveVars>>

(***************************************************************************)
(* Files of an output directory: a set of [name, content] records, at most *)
(* one per name; open(filepath, 'w') replaces the file of that name.       *)
(***************************************************************************)
WriteFile(files, name, content) ==
  { f \in files : f.name # name } \cup {[name |-> name, content |-> content]}

(***************************************************************************)
(* BlogScraper                                                             *)
(***************************************************************************)
\* articles of the listing page the model draws from
MaxArticles == 2

\* BlogScraper.SOURCES['category_labs']
BlogBase == Url("blog.categorylabs.xyz", "", "")

NoTitle == "<no h2/h1>"
NoHref == NoUrl

Titles == {NoTitle, "MonadBFT update", "Cooking tips"}

BlogHrefs == {NoHref, Url("", "/p1", ""), Url("", "/p2", "")}

\* the tag lists _extract_tags finds in an article
TagLists == {<<>>, <<"BFT">>}

\* an <article class="post">: its heading, the href of its first link and
\* the texts of its tag links
Articles == [title : Titles, href : BlogHrefs, tags : TagLists]

\* the text of the page at a post URL, as _fetch_post_content extracts it
PageText(u) == IF u.path = "/p1" THEN "Fork rules" ELSE "text"

\* line 86: the post URL of an article
PostUrl(article) ==
  IF article.href # NoHref THEN urljoin(BlogBase, article.href) ELSE BlogBase

\* _fetch_post_content: the page text, '' on any exception
_fetch_post_content(u, resp) == IF resp = "ok" THEN PageText(u) ELSE ""

\* lines 100-109: BlogPost(...)
BlogPost(article, content) ==
  [url |-> PostUrl(article), title |-> article.title, content |-> content,
   tags |-> article.tags, source |-> "category_labs"]

\* urlparse(post.url).path.strip('/').replace('/', '_')
FlatPath(path) ==
  CASE path = "/p1" -> "p1"
    [] path = "/p2" -> "p2"
    [] path = "/a" -> "a"
    [] path = "/b" -> "b"
    [] path = "/c" -> "c"
    [] path = "/a/b" -> "a_b"
    [] path = "/a_b" -> "a_b"
    [] OTHER -> ""

\* post.title.lower().replace(' ', '_')[:50]
TitleSlug(title) ==
  CASE title = "MonadBFT update" -> "monadbft_update"
    [] title = "Cooking tips" -> "cooking_tips"
    [] OTHER -> title

\* save_post, lines 194-199: the file name of a post
PostFilename(post) ==
  IF FlatPath(post.url.path) # ""
    THEN FlatPath(post.url.path)
    ELSE TitleSlug(post.title)

\* the characters of the strings of the model; strings are atoms otherwise
Spell(str) ==
  CASE str = "" -> <<>>
    [] str = "MonadBFT update" ->
         <<"M", "o", "n", "a", "d", "B", "F", "T", " ", "u", "p", "d", "a", "t", "e">>
    [] str = "Cooking tips" ->
         <<"C", "o", "o", "k", "i", "n", "g", " ", "t", "i", "p", "s">>
    [] str = "text" ->
         <<"t", "e", "x", "t">>
    [] str = "Fork rules" ->
         <<"F", "o", "r", "k", " ", "r", "u", "l", "e", "s">>
    [] str = "BFT" ->
         <<"B", "F", "T">>
    [] str = "monadbft" ->
         <<"m", "o", "n", "a", "d", "b", "f", "t">>
    [] str = "hotstuff" ->
         <<"h", "o", "t", "s", "t", "u", "f", "f">>
    [] str = "bft" ->
         <<"b", "f", "t">>
    [] str = "consensus" ->
         <<"c", "o", "n", "s", "e", "n", "s", "u", "s">>
    [] str = "byzantine" ->
         <<"b", "y", "z", "a", "n", "t", "i", "n", "e">>
    [] str = "finality" ->
         <<"f", "i", "n", "a", "l", "i", "t", "y">>
    [] str = "fork" ->
         <<"f", "o", "r", "k">>
    [] str = "blockchain" ->
         <<"b", "l", "o", "c", "k", "c", "h", "a", "i", "n">>

\* str.lower() on one character
LowerChar(c) ==
  CASE c = "A" -> "a"
    [] c = "B" -> "b"
    [] c = "C" -> "c"
    [] c = "F" -> "f"
    [] c = "M" -> "m"
    [] c = "T" -> "t"
    [] OTHER -> c

\* str.lower() on a spelled string
Lower(chars) == [i \in 1..Len(chars) |-> LowerChar(chars[i])]

\* ' '.join(tags), spelled
RECURSIVE JoinTags(_)
JoinTags(tags) ==
  IF tags = <<>> THEN <<>>
  ELSE IF Len(tags) = 1 THEN Spell(tags[1])
  ELSE Spell(tags[1]) \o <<" ">> \o JoinTags(Tail(tags))

\* f"{post.title} {post.content} {' '.join(post.tags)}", spelled
Formatted(post) ==
  Spell(post.title) \o <<" ">> \o Spell(post.content) \o <<" ">>
    \o JoinTags(post.tags)

\* line 226 without .lower()
PostTextAsIs(post) == Formatted(post)

\* line 226: the text the keywords are looked up in
PostText(post) == Lower(Formatted(post))

\* filter_monadbft_posts, lines 219-222
Keywords ==
  { "monadbft", "hotstuff", "bft", "consensus",
    "byzantine", "finality", "fork", "blockchain" }

\* keyword in text
In(keyword, chars) ==
  \E k \in 0..(Len(chars) - Len(keyword)) :
    SubSeq(chars, k + 1, k + Len(keyword)) = keyword

\* line 227: any(keyword in text for keyword in keywords)
AnyKeyword(post) == \E kw \in Keywords : In(Spell(kw), PostText(post))

\* filter_monadbft_posts: the loop of lines 224-230
RECURSIVE filter_monadbft_posts(_)
filter_monadbft_posts(ps) ==
  IF ps = <<>> THEN <<>>
  ELSE IF AnyKeyword(Head(ps))
    THEN <<Head(ps)>> \o filter_monadbft_posts(Tail(ps))
    ELSE filter_monadbft_posts(Tail(ps))

InitBlog ==
  /\ bpc = "idle"
  /\ articles = <<>>
  /\ art = 0
  /\ posts = <<>>
  /\ nsaved = 0
  /\ blog_files = {}
  /\ blog_saved = <<>>
  /\ filter_on = FALSE
  /\ to_save = <<>>
  /\ blog_gets = 0

\* main, lines 256-261, and scrape_category_labs, lines 65-66
BlogStart ==
  /\ bpc = "idle"
  /\ posts' = <<>>
  /\ bpc' = "listing"
  /\ UNCHANGED <<articles, art, nsaved, blog_files, blog_saved, filter_on,
                 to_save, blog_gets>>
  /\ UNCHANGED <<crawlVars, arxivVars, saveVars>>

\* lines 69-74: the listing page is fetched and its articles found
BlogListingOk ==
  /\ bpc = "listing"
  /\ \E arts \in SeqsUpTo(Articles, MaxArticles) : articles' = arts
  /\ art' = 1
  /\ blog_gets' = blog_gets + 1
  /\ bpc' = "articles"
  /\ UNCHANGED <<posts, nsaved, blog_files, blog_saved, filter_on, to_save>>
  /\ UNCHANGED <<crawlVars, arxivVars, saveVars>>

\* lines 119-122: the listing fetch fails; posts is returned empty
BlogListingError ==
  /\ bpc = "listing"
  /\ blog_gets' = blog_gets + 1
  /\ bpc' = "main"
  /\ UNCHANGED <<articles, art, posts, nsaved, blog_files, blog_saved,
                 filter_on, to_save>>
  /\ UNCHANGED <<crawlVars, arxivVars, saveVars>>

\* lines 78-80: an article without heading is skipped
BlogSkipArticle ==
  /\ bpc = "articles"
  /\ art <= Len(articles)
  /\ articles[art].title = NoTitle
  /\ art' = art + 1
  /\ UNCHANGED <<bpc, articles, posts, nsaved, blog_files, blog_saved,
                 filter_on, to_save, blog_gets>>
  /\ UNCHANGED <<crawlVars, arxivVars, saveVars>>

\* lines 82-113: an article with heading becomes a post
BlogParseArticle(resp) ==
  /\ bpc = "articles"
  /\ art <= Len(articles)
  /\ articles[art].title # NoTitle
  /\ LET content == _fetch_post_content(PostUrl(articles[art]), resp)
     IN posts' = Append(posts, BlogPost(articles[art], content))
  /\ blog_gets' = blog_gets + 1
  /\ art' = art + 1
  /\ UNCHANGED <<bpc, articles, nsaved, blog_files, blog_saved, filter_on,
                 to_save>>
  /\ UNCHANGED <<crawlVars, arxivVars, saveVars>>

BlogParseArticleOk == BlogParseArticle("ok")

BlogParseArticleError == BlogParseArticle("error")

\* line 122: return posts
BlogReturn ==
  /\ bpc = "articles"
  /\ art > Len(articles)
  /\ bpc' = "main"
  /\ UNCHANGED <<articles, art, posts, nsaved, blog_files, blog_saved,
                 filter_on, to_save, blog_gets>>
  /\ UNCHANGED <<crawlVars, arxivVars, saveVars>>

\* main, lines 266-269, with --filter-monadbft
BlogFilter ==
  /\ bpc = "main"
  /\ filter_on' = TRUE
  /\ to_save' = filter_monadbft_posts(posts)
  /\ nsaved' = 0
  /\ bpc' = "save"
  /\ UNCHANGED <<articles, art, posts, blog_files, blog_saved, blog_gets>>
  /\ UNCHANGED <<crawlVars, arxivVars, saveVars>>

\* main, lines 266-269, without --filter-monadbft
BlogNoFilter ==
  /\ bpc = "main"
  /\ filter_on' = FALSE
  /\ to_save' = posts
  /\ nsaved' = 0
  /\ bpc' = "save"
  /\ UNCHANGED <<articles, art, posts, blog_files, blog_saved, blog_gets>>
  /\ UNCHANGED <<crawlVars, arxivVars, saveVars>>

\* main, lines 271-272, and save_post: the next post is written to its file
BlogSavePost ==
  /\ bpc = "save"
  /\ nsaved < Len(to_save)
  /\ LET post == to_save[nsaved + 1]
     IN /\ blog_files' = WriteFile(blog_files, PostFilename(post), post)
        /\ blog_saved' = Append(blog_saved, post)
  /\ nsaved' = nsaved + 1
  /\ UNCHANGED <<bpc, articles, art, posts, filter_on, to_save, blog_gets>>
  /\ UNCHANGED <<crawlVars, arxivVars, saveVars>>

\* main, line 273: the loop over posts ends
BlogDone ==
  /\ bpc = "save"
  /\ nsaved = Len(to_save)
  /\ bpc' = "done"
  /\ UNCHANGED <<articles, art, posts, nsaved, blog_files, blog_saved,
                 filter_on, to_save, blog_gets>>
  /\ UNCHANGED <<crawlVars, arxivVars, saveVars>>

BlogNext ==
  \/ BlogStart
  \/ BlogListingOk
  \/ BlogListingError
  \/ BlogSkipArticle
  \/ BlogParseArticleOk
  \/ BlogParseArticleError
  \/ BlogReturn
  \/ BlogFilter
  \/ BlogNoFilter
  \/ BlogSavePost
  \/ BlogDone

(***************************************************************************)
(* ArxivScraper                                                            *)
(***************************************************************************)
\* feed entries the API serves over all the searches of one run
MaxEntries == 5

\* fetch_related_papers: len(queries)
NumQueries == 4

\* an <entry> of the feed: the id after /abs/, the updated stamp, and
\* whether all of id, title, summary, published, updated are present
Entries ==
  { [id |-> "A", updated |-> 1, complete |-> TRUE],
    [id |-> "A", updated |-> 2, complete |-> TRUE],
    [id |-> "B", updated |-> 1, complete |-> TRUE],
    [id |-> "C", updated |-> 1, complete |-> TRUE],
    [id |-> "B", updated |-> 1, complete |-> FALSE] }

\* lines 202-226: ArxivPaper(...) of a complete entry
ArxivPaper(entry) == [paper_id |-> entry.id, updated |-> entry.updated]

\* search_papers: the papers of the feed; [] when the request fails or when
\* a missing element raises inside the loop (except Exception, line 230)
search_papers(resp, feed) ==
  IF resp = "ok" /\ \A i \in 1..Len(feed) : feed[i].complete
    THEN [i \in 1..Len(feed) |-> ArxivPaper(feed[i])]
    ELSE <<>>

\* line 258 with the membership test lost: every paper counts as new
NotSeenAlways(paper, ids) == TRUE

\* line 258: paper.paper_id not in seen
NotSeen(paper, ids) == paper.paper_id \notin ids

\* entries of the feed one fetch_paper is answered with
MaxFeedEntries == 2

\* no response text: the request failed or none was made
NoXml == [wellformed |-> FALSE, entries |-> <<>>]

\* the response texts of the API: text that is not well-formed XML, or a
\* well-formed feed with some entries
XmlResponses ==
  {NoXml} \cup { [wellformed |-> TRUE, entries |-> es] :
                   es \in SeqsUpTo(Entries, MaxFeedEntries) }

\* _parse_response without the test of line 91: the first use of entry raises
ParseResponseNoGuard(x) ==
  IF ~x.wellformed THEN None
  ELSE IF x.entries = <<>> \/ ~x.entries[1].complete
    THEN [kind |-> "raise"]
    ELSE [kind |-> "paper", paper |-> ArxivPaper(x.entries[1])]

\* _parse_response: None on ET.ParseError (line 140) and when the feed has
\* no entry (line 91); a missing element of the first entry makes
\* .text fail on None with AttributeError, which no except clause catches
_parse_response(x) ==
  IF ~x.wellformed THEN None
  ELSE IF x.entries = <<>> THEN None
  ELSE IF ~x.entries[1].complete THEN [kind |-> "raise"]
  ELSE [kind |-> "paper", paper |-> ArxivPaper(x.entries[1])]

\* fetch_paper: None on requests.RequestException (line 75), else the
\* outcome of _parse_response
fetch_paper(resp, x) == IF resp = "ok" THEN _parse_response(x) ELSE None

InitArxiv ==
  /\ apc = "idle"
  /\ query = 0
  /\ all_papers = <<>>
  /\ seen = {}
  /\ unique_papers = <<>>
  /\ scanned = 0
  /\ entries_served = 0
  /\ paper_files = {}
  /\ paper_saved = <<>>
  /\ last_feed = <<>>
  /\ search_resp = "none"
  /\ found = <<>>
  /\ xml = NoXml
  /\ fetch_resp = "none"
  /\ fetched = None

\* main, lines 311-314, and fetch_related_papers, lines 241-248
ArxivStart ==
  /\ apc = "idle"
  /\ all_papers' = <<>>
  /\ query' = 1
  /\ apc' = "search"
  /\ UNCHANGED <<seen, unique_papers, scanned, entries_served, paper_files,
                 paper_saved>>
  /\ UNCHANGED <<searchVars, fetchVars>>
  /\ UNCHANGED <<crawlVars, blogVars, saveVars>>

\* lines 249-252: one query is searched and its papers appended
Search(resp) ==
  /\ apc = "search"
  /\ query <= NumQueries
  /\ \E feed \in SeqsUpTo(Entries, MaxEntries - entries_served) :
       /\ resp = "error" => feed = <<>>
       /\ entries_served' = entries_served + Len(feed)
       /\ last_feed' = feed
       /\ found' = search_papers(resp, feed)
       /\ all_papers' = all_papers \o search_papers(resp, feed)
  /\ search_resp' = resp
  /\ query' = query + 1
  /\ UNCHANGED <<apc, seen, unique_papers, scanned, paper_files, paper_saved>>
  /\ UNCHANGED fetchVars
  /\ UNCHANGED <<crawlVars, blogVars, saveVars>>

SearchOk == Search("ok")

SearchError == Search("error")

\* lines 254-256: the searches are over; seen = set(), unique_papers = []
DedupeStart ==
  /\ apc = "search"
  /\ query > NumQueries
  /\ seen' = {}
  /\ unique_papers' = <<>>
  /\ scanned' = 0
  /\ apc' = "dedupe"
  /\ UNCHANGED <<query, all_papers, entries_served, paper_files, paper_saved>>
  /\ UNCHANGED <<searchVars, fetchVars>>
  /\ UNCHANGED <<crawlVars, blogVars, saveVars>>

\* lines 257-260: a paper not seen before is kept
DedupeKeep ==
  /\ apc = "dedupe"
  /\ scanned < Len(all_papers)
  /\ LET paper == all_papers[scanned + 1]
     IN /\ NotSeen(paper, seen)
        /\ seen' = seen \cup {paper.paper_id}
        /\ unique_papers' = Append(unique_papers, paper)
  /\ scanned' = scanned + 1
  /\ UNCHANGED <<apc, query, all_papers, entries_served, paper_files,
                 paper_saved>>
  /\ UNCHANGED <<searchVars, fetchVars>>
  /\ UNCHANGED <<crawlVars, blogVars, saveVars>>

\* lines 257-258: a paper seen before is passed over
DedupeSkip ==
  /\ apc = "dedupe"
  /\ scanned < Len(all_papers)
  /\ ~NotSeen(all_papers[scanned + 1], seen)
  /\ scanned' = scanned + 1
  /\ UNCHANGED <<apc, query, all_papers, seen, unique_papers, entries_served,
                 paper_files, paper_saved>>
  /\ UNCHANGED <<searchVars, fetchVars>>
  /\ UNCHANGED <<crawlVars, blogVars, saveVars>>

\* line 262: return unique_papers
RelatedReturn ==
  /\ apc = "dedupe"
  /\ scanned = Len(all_papers)
  /\ apc' = "save"
  /\ UNCHANGED <<query, all_papers, seen, unique_papers, scanned,
                 entries_served, paper_files, paper_saved>>
  /\ UNCHANGED <<searchVars, fetchVars>>
  /\ UNCHANGED <<crawlVars, blogVars, saveVars>>

\* main, lines 317-318, and save_metadata: the next paper is written
SaveMetadata ==
  /\ apc = "save"
  /\ Len(paper_saved) < Len(unique_papers)
  /\ LET paper == unique_papers[Len(paper_saved) + 1]
     IN /\ paper_files' = WriteFile(paper_files, paper.paper_id, paper)
        /\ paper_saved' = Append(paper_saved, paper)
  /\ UNCHANGED <<apc, query, all_papers, seen, unique_papers, scanned,
                 entries_served>>
  /\ UNCHANGED <<searchVars, fetchVars>>
  /\ UNCHANGED <<crawlVars, blogVars, saveVars>>

\* main, line 318: the loop over papers ends
ArxivDone ==
  /\ apc = "save"
  /\ Len(paper_saved) = Len(unique_papers)
  /\ apc' = "done"
  /\ UNCHANGED <<query, all_papers, seen, unique_papers, scanned,
                 entries_served, paper_files, paper_saved>>
  /\ UNCHANGED <<searchVars, fetchVars>>
  /\ UNCHANGED <<crawlVars, blogVars, saveVars>>

\* main, line 324: paper = scraper.fetch_paper(args.paper_id)
FetchPaper(resp) ==
  /\ apc = "idle"
  /\ \E x \in XmlResponses :
       /\ resp = "error" => x = NoXml
       /\ xml' = x
       /\ fetched' = fetch_paper(resp, x)
       /\ apc' = IF fetch_paper(resp, x).kind = "raise"
                   THEN "raised" ELSE "fetched"
  /\ fetch_resp' = resp
  /\ UNCHANGED <<query, all_papers, seen, unique_papers, scanned,
                 entries_served, paper_files, paper_saved>>
  /\ UNCHANGED searchVars
  /\ UNCHANGED <<crawlVars, blogVars, saveVars>>

FetchPaperOk == FetchPaper("ok")

FetchPaperError == FetchPaper("error")

\* main, lines 326-335: the paper found is printed and its metadata saved
SaveFetched ==
  /\ apc = "fetched"
  /\ fetched.kind = "paper"
  /\ paper_files' = WriteFile(paper_files, fetched.paper.paper_id,
                              fetched.paper)
  /\ paper_saved' = Append(paper_saved, fetched.paper)
  /\ apc' = "done"
  /\ UNCHANGED <<query, all_papers, seen, unique_papers, scanned,
                 entries_served>>
  /\ UNCHANGED <<searchVars, fetchVars>>
  /\ UNCHANGED <<crawlVars, blogVars, saveVars>>

\* main, lines 340-341: "Paper ... not found"
PaperNotFound ==
  /\ apc = "fetched"
  /\ fetched.kind = "none"
  /\ apc' = "done"
  /\ UNCHANGED <<query, all_papers, seen, unique_papers, scanned,
                 entries_served, paper_files, paper_saved>>
  /\ UNCHANGED <<searchVars, fetchVars>>
  /\ UNCHANGED <<crawlVars, blogVars, saveVars>>

ArxivNext ==
  \/ ArxivStart
  \/ SearchOk
  \/ SearchError
  \/ DedupeStart
  \/ DedupeKeep
  \/ DedupeSkip
  \/ RelatedReturn
  \/ SaveMetadata
  \/ ArxivDone
  \/ FetchPaperOk
  \/ FetchPaperError
  \/ SaveFetched
  \/ PaperNotFound

(***************************************************************************)
(* DocsScraper persistence: save_page, save_all_pages and the main that    *)
(* calls them.  The output directory outlives a run of main.               *)
(***************************************************************************)
\* runs of docs_scraper.main against one output directory
MaxRuns == 2

\* pages handed to one save_all_pages
MaxSavePages == 2

\* the URLs of the pages that are saved
SaveUrls ==
  { Url(DocsDom, "/", ""), Url(DocsDom, "/a", ""),
    Url(DocsDom, "/a/b", ""), Url(DocsDom, "/a_b", "") }

\* the DocPage records that are saved: the title stands for what
\* _scrape_page extracted from the page's HTML at the time
SavedDocPages == [url : SaveUrls, title : {"v1", "v2"}, section : {"General"}]

\* the lists of pages scrape_docs can return: no URL twice
PageLists ==
  { ps \in SeqsUpTo(SavedDocPages, MaxSavePages) :
      \A i, j \in 1..Len(ps) : i # j => ps[i].url # ps[j].url }

\* save_page, lines 183-187: the file name of a page, without ".json"
DocFilename(page) ==
  IF FlatPath(page.url.path) # "" THEN FlatPath(page.url.path) ELSE "index"

\* save_all_pages, line 228: the file name of the index, without ".json"
IndexFilename == "index"

\* save_page: the directory after the page is written
save_page(files, page) == WriteFile(files, DocFilename(page), page)

\* save_all_pages, lines 203-225: the index of the pages
IndexOf(ps) ==
  [ total_pages |-> Len(ps),
    sections |-> [ sec \in { ps[i].section : i \in 1..Len(ps) } |->
                     SelectSeq([i \in 1..Len(ps) |->
                                  [title |-> ps[i].title, url |-> ps[i].url,
                                   section |-> ps[i].section]],
                               LAMBDA e : e.section = sec) ],
    pages |-> [i \in 1..Len(ps) |->
                 [title |-> ps[i].title, url |-> ps[i].url,
                  section |-> ps[i].section]] ]

InitSave ==
  /\ spc = "idle"
  /\ save_runs = 0
  /\ save_pages = <<>>
  /\ save_done = 0
  /\ doc_files = {}
  /\ doc_saved = <<>>

\* main, lines 259-263: --single-page saves the one page scraped
SaveSinglePage ==
  /\ spc = "idle"
  /\ save_runs < MaxRuns
  /\ \E page \in SavedDocPages :
       /\ doc_files' = save_page(doc_files, page)
       /\ doc_saved' = Append(doc_saved, page)
  /\ save_runs' = save_runs + 1
  /\ UNCHANGED <<spc, save_pages, save_done>>
  /\ UNCHANGED <<crawlVars, blogVars, arxivVars>>

\* main, lines 265-266, and save_all_pages, line 197
SaveAllStart ==
  /\ spc = "idle"
  /\ save_runs < MaxRuns
  /\ \E ps \in PageLists : save_pages' = ps
  /\ save_done' = 0
  /\ save_runs' = save_runs + 1
  /\ spc' = "pages"
  /\ UNCHANGED <<doc_files, doc_saved>>
  /\ UNCHANGED <<crawlVars, blogVars, arxivVars>>

\* save_all_pages, lines 199-200: the next page is saved
SaveNextPage ==
  /\ spc = "pages"
  /\ save_done < Len(save_pages)
  /\ LET page == save_pages[save_done + 1]
     IN /\ doc_files' = save_page(doc_files, page)
        /\ doc_saved' = Append(doc_saved, page)
  /\ save_done' = save_done + 1
  /\ UNCHANGED <<spc, save_runs, save_pages>>
  /\ UNCHANGED <<crawlVars, blogVars, arxivVars>>

\* save_all_pages, lines 202-232: the index is built and written
SaveIndex ==
  /\ spc = "pages"
  /\ save_done = Len(save_pages)
  /\ doc_files' = WriteFile(doc_files, IndexFilename, IndexOf(save_pages))
  /\ spc' = "saved"
  /\ UNCHANGED <<save_runs, save_pages, save_done, doc_saved>>
  /\ UNCHANGED <<crawlVars, blogVars, arxivVars>>

\* main, lines 268-270: the run ends
SaveRunEnd ==
  /\ spc = "saved"
  /\ spc' = "idle"
  /\ UNCHANGED <<save_runs, save_pages, save_done, doc_files, doc_saved>>
  /\ UNCHANGED <<crawlVars, blogVars, arxivVars>>

SaveNext ==
  \/ SaveSinglePage
  \/ SaveAllStart
  \/ SaveNextPage
  \/ SaveIndex
  \/ SaveRunEnd

(***************************************************************************)
(* Specifications                                                          *)
(***************************************************************************)
Init == InitCrawl /\ InitBlog /\ InitArxiv /\ InitSave

Next ==
  \/ StartCrawl
  \/ PopVisited
  \/ PopFresh
  \/ ScrapePageOk
  \/ ScrapePageError
  \/ FindLinksOk
  \/ FindLinksError
  \/ Sleep
  \/ Return

\* the documentation crawl
Spec == Init /\ [][Next]_vars

\* hyperlinks of the four-page documentation sites
MaxBfsLinks == 4

\* the hrefs the four-page sites are built from
BfsHrefs ==
  { Url("", "/a", ""),         \* <a href="/a">
    Url("", "/b", ""),         \* <a href="/b">
    Url("", "/b", "s"),        \* <a href="/b#s">
    Url("", "/c", "") }        \* <a href="/c">

\* the site whose pages /, /a, /c of docs.monad.xyz carry the links of s,
\* cut at c1 <= c2, and whose page /b is a leaf
CutSite(s, c1, c2) ==
  [u \in PageUrls |->
     IF u.dom # DocsDom THEN <<>>
     ELSE CASE u.path = "/" -> SubSeq(s, 1, c1)
            [] u.path = "/a" -> SubSeq(s, c1 + 1, c2)
            [] u.path = "/c" -> SubSeq(s, c2 + 1, Len(s))
            [] OTHER -> <<>>]

\* the ways to cut n links into the lists of three pages
Cuts(n) == { d \in (0..n) \X (0..n) : d[1] <= d[2] }

\* the four-page sites with at most MaxBfsLinks hyperlinks
BfsSites ==
  UNION { { CutSite(s, c[1], c[2]) : c \in Cuts(Len(s)) } :
            s \in SeqsUpTo(BfsHrefs, MaxBfsLinks) }

\* a fresh scraper before a site whose pages are all fixed
BfsInit ==
  /\ \E st \in BfsSites :
       /\ LinksOnSite(st) <= MaxBfsLinks
       /\ site = st
  /\ served = PageUrls
  /\ InitScraper
  /\ InitBlog /\ InitArxiv /\ InitSave

\* the crawl when every fetch succeeds
BfsNext ==
  \/ StartCrawl
  \/ PopVisited
  \/ PopFresh
  \/ ScrapePageOk
  \/ FindLinksOk
  \/ Sleep
  \/ Return

\* the documentation crawl of a four-page site, every fetch succeeding
BfsSpec == BfsInit /\ [][BfsNext]_vars

\* the blog scrape
BlogSpec == Init /\ [][BlogNext]_vars

\* the related-paper fetch
ArxivSpec == Init /\ [][ArxivNext]_vars

\* the saving of documentation pages
SaveSpec == Init /\ [][SaveNext]_vars

\* the crawl keeps running once scrape_docs is called: the program is
\* sequential and every session.get returns or times out (timeout=30)
CrawlStep ==
  \/ PopVisited
  \/ PopFresh
  \/ ScrapePageOk
  \/ ScrapePageError
  \/ FindLinksOk
  \/ FindLinksError
  \/ Sleep
  \/ Return

FairSpec == Spec /\ WF_vars(CrawlStep)

(***************************************************************************)
(* Properties of the documentation crawl                                   *)
(***************************************************************************)
UrlsOf(recs) == { recs[i].url : i \in 1..Len(recs) }

DistinctUrls(recs) ==
  \A i, j \in 1..Len(recs) : i # j => recs[i].url # recs[j].url

\* the pages the page at u links to
LinkTargets(u) == { PageOf(urljoin(u, site[u][i])) : i \in 1..Len(site[u]) }

\* the pages of the seed's domain reachable from S over the site's links
RECURSIVE Reach(_, _)
Reach(S, seed) ==
  LET T == S \cup { t \in UNION { LinkTargets(u) : u \in S } :
                      netloc(t) = netloc(seed) }
  IN IF T = S THEN S ELSE Reach(T, seed)

Reachable(seed) == Reach({seed}, seed)

\* the first crawl of a scraper has returned and none of its fetches failed
FirstCrawlClean == pc = "idle" /\ crawls = 1 /\ returned[1].clean

\* C1: a crawl on a fresh scraper whose fetches all succeed returns exactly
\* one DocPage per page reachable from the seed over same-domain links:
\* none missing, none twice.
C1_ExactlyReachable ==
  FirstCrawlClean =>
    /\ UrlsOf(returned[1].pages) = Reachable(returned[1].seed)
    /\ DistinctUrls(returned[1].pages)

\* C2: during one crawl no URL is the target of more than one HTTP fetch,
\* and a clean crawl costs as many fetches as there are reachable pages.
C2_FetchedAtMostOnce ==
  /\ \A u \in PageUrls : fetches[u] <= 1
  /\ FirstCrawlClean =>
       \A u \in PageUrls :
         fetches[u] = IF u \in Reachable(returned[1].seed) THEN 1 ELSE 0

\* the step in which _find_doc_links got the page and extended urls_to_visit
LinkStep == pc = "links" /\ pc' = "sleep" /\ response' = "ok"

\* the URLs that step appended to urls_to_visit
Appended ==
  Range(SubSeq(urls_to_visit', Len(urls_to_visit) + 1, Len(urls_to_visit')))

\* C5: link discovery keeps a link exactly when its domain is the domain
\* of the crawl's seed URL: what is appended is on the seed's domain, and a
\* link on the seed's domain is not dropped by the domain filter.
C5_SeedDomainFilter ==
  [][LinkStep =>
      \A i \in 1..Len(site'[url]) :
        LET full_url == urljoin(url, site'[url][i])
        IN /\ full_url \in Appended => netloc(full_url) = netloc(start_url)
           /\ ( /\ netloc(full_url) = netloc(start_url)
                /\ ~HasHash(full_url)
                /\ full_url \notin visited_urls ) => full_url \in Appended
    ]_vars

\* C6: only anchor-only links are dropped on account of a fragment: a
\* same-domain, unvisited link with a fragment and a path other than the
\* current page's is enqueued.
C6_OnlyAnchorOnlyDropped ==
  [][LinkStep =>
      \A i \in 1..Len(site'[url]) :
        LET full_url == urljoin(url, site'[url][i])
        IN ( /\ netloc(full_url) = netloc(BASE_URL)
             /\ netloc(full_url) = netloc(start_url)
             /\ HasHash(full_url)
             /\ full_url.path # url.path
             /\ PageOf(full_url) \notin visited_urls )
           => (full_url \in Appended \/ PageOf(full_url) \in Appended)
    ]_vars

\* C7: between any two consecutive HTTP requests of a crawl there is at
\* least one time.sleep(1).
C7_SleepBetweenRequests == sinceSleep <= 1

\* C9: every scrape_docs invocation begins with an empty visited set, and
\* a second clean crawl from the same seed on the same scraper returns the
\* records of the first.
C9_CrawlScopedFrontier ==
  /\ (pc = "loop" /\ dequeued = 0) => visited_urls = {}
  /\ ( /\ Len(returned) = 2
       /\ returned[1].seed = returned[2].seed
       /\ returned[1].clean
       /\ returned[2].clean ) => returned[1].pages = returned[2].pages

\* the crawl has returned
CrawlReturned ==
  pc = "idle" /\ crawls > 0 /\ Len(returned) = crawls /\ urls_to_visit = <<>>

\* C3: the crawl terminates: whatever the links and whichever fetches fail,
\* a running scrape_docs reaches an empty urls_to_visit and returns.
C3_CrawlTerminates == (pc # "idle") ~> CrawlReturned

\* a crawl returned after a failed fetch, a cycle back to the seed and a
\* URL enqueued more than once
C3_Witness ==
  /\ CrawlReturned
  /\ failed # {}
  /\ start_url \in LinkTargets(start_url)
  /\ enqueued > Cardinality(scraped \cup failed)

\* no exception leaves scrape_docs, and a returned crawl has popped every
\* URL it enqueued and returns the record of every page it scraped
CrawlNotAborted ==
  /\ pc # "raised"
  /\ CrawlReturned =>
       /\ dequeued = enqueued
       /\ UrlsOf(pages) = scraped
       /\ returned[crawls].pages = pages

\* C8: a failed fetch of one page never aborts the crawl: the failed page
\* yields no record, the URLs still on urls_to_visit are all popped later,
\* and the records of the pages scraped successfully are returned.
C8_FailureDoesNotAbort ==
  /\ []CrawlNotAborted
  /\ [][(pc = "scrape" /\ response' = "error") =>
          /\ pages' = pages
          /\ urls_to_visit' = urls_to_visit
          /\ pc' = "sleep"]_vars

\* a crawl returned records although a page failed; the page was enqueued
\* again and scraped on the later attempt
C8_Witness ==
  /\ CrawlReturned
  /\ failed \cap scraped # {}
  /\ Len(pages) >= 2

(***************************************************************************)
(* Properties of the records handed to persistence                         *)
(***************************************************************************)
\* C4: in one run of any adapter, no two records handed to the persistence
\* layer share the same identity (doc URL, post URL, paper id).
C4_DistinctIdentities ==
  /\ DistinctUrls(blog_saved)
  /\ \A i, j \in 1..Len(paper_saved) :
       i # j => paper_saved[i].paper_id # paper_saved[j].paper_id
  /\ \A k \in 1..Len(returned) : DistinctUrls(returned[k].pages)

(***************************************************************************)
(* Properties of fetch_related_papers                                      *)
(***************************************************************************)
\* the index of the first paper of s with the given id
FirstIndex(s, id) ==
  CHOOSE i \in 1..Len(s) :
    /\ s[i].paper_id = id
    /\ \A j \in 1..(i - 1) : s[j].paper_id # id

IdsOf(s) == [i \in 1..Len(s) |-> s[i].paper_id]

\* C10: the de-duplication in fetch_related_papers returns exactly one
\* record per distinct paper id, namely its first occurrence in the
\* concatenated search results, in the order of the first occurrences.
C10_DedupeFirstOccurrence ==
  apc \in {"save", "done"} =>
    /\ Range(IdsOf(unique_papers)) = Range(IdsOf(all_papers))
    /\ \A k, l \in 1..Len(unique_papers) :
         k # l => unique_papers[k].paper_id # unique_papers[l].paper_id
    /\ \A k \in 1..Len(unique_papers) :
         unique_papers[k] =
           all_papers[FirstIndex(all_papers, unique_papers[k].paper_id)]
    /\ \A k, l \in 1..Len(unique_papers) :
         k < l => FirstIndex(all_papers, unique_papers[k].paper_id)
                    < FirstIndex(all_papers, unique_papers[l].paper_id)

\* the search results had the identities [A,B,A,C,B], the two A records
\* differing, and were de-duplicated to [A,B,C]
C10_Witness ==
  /\ apc = "save"
  /\ IdsOf(all_papers) = <<"A", "B", "A", "C", "B">>
  /\ all_papers[1] # all_papers[3]
  /\ IdsOf(unique_papers) = <<"A", "B", "C">>

(***************************************************************************)
(* Properties of persistence                                               *)
(***************************************************************************)
\* the step handed one more record to a save operation
SavedOne(saved_before, saved_after) ==
  Len(saved_after) = Len(saved_before) + 1

\* the record was written over the file of its identity: no file was added,
\* its content is on disk, and no file holds older content of the identity
Overwrote(files_before, files_after, rec, sameIdentity(_, _)) ==
  /\ Cardinality(files_after) = Cardinality(files_before)
  /\ \E f \in files_after : f.content = rec
  /\ \A f \in files_after : sameIdentity(f.content, rec) => f.content = rec

SameUrl(content, rec) == "url" \in DOMAIN content /\ content.url = rec.url

SamePaperId(content, rec) == content.paper_id = rec.paper_id

\* C11: persistence is idempotent: saving a record whose identity was
\* saved before leaves the number of files unchanged, and the file of that
\* identity holds the content of the latest save.
C11_IdempotentSave ==
  /\ [][(SavedOne(doc_saved, doc_saved')
          /\ doc_saved'[Len(doc_saved')].url \in UrlsOf(doc_saved))
        => Overwrote(doc_files, doc_files', doc_saved'[Len(doc_saved')],
                     SameUrl)]_vars
  /\ [][(SavedOne(blog_saved, blog_saved')
          /\ blog_saved'[Len(blog_saved')].url \in UrlsOf(blog_saved))
        => Overwrote(blog_files, blog_files', blog_saved'[Len(blog_saved')],
                     SameUrl)]_vars
  /\ [][(SavedOne(paper_saved, paper_saved')
          /\ paper_saved'[Len(paper_saved')].paper_id
               \in Range(IdsOf(paper_saved)))
        => Overwrote(paper_files, paper_files',
                     paper_saved'[Len(paper_saved')], SamePaperId)]_vars

\* C12: after save_all_pages on pages with pairwise distinct URLs, every
\* page has its own file holding its record, besides the index file: none
\* is overwritten by another page, the root page included, or by the index.
C12_OneFilePerPage ==
  spc = "saved" =>
    /\ \A i \in 1..Len(save_pages) :
         \E f \in doc_files :
           f.name = DocFilename(save_pages[i]) /\ f.content = save_pages[i]
    /\ \E f \in doc_files :
         f.name = IndexFilename /\ f.content = IndexOf(save_pages)

(***************************************************************************)
(* Properties of the paper search and the single-paper fetch               *)
(***************************************************************************)
\* the step in which search_papers got a feed
SearchStep == apc = "search" /\ query' = query + 1 /\ search_resp' = "ok"

\* the papers of the entries of a feed that lack no required field
PapersOfComplete(feed) ==
  LET complete == SelectSeq(feed, LAMBDA e : e.complete)
  IN [i \in 1..Len(complete) |-> ArxivPaper(complete[i])]

\* C13: paper search is best-effort per entry: an entry lacking a required
\* field is skipped and the records of all other entries are returned.
C13_SearchSkipsBadEntry ==
  [][SearchStep => found' = PapersOfComplete(last_feed')]_vars

\* fetch_paper was answered with a well-formed feed
WellFormedAnswer == fetch_resp = "ok" /\ xml.wellformed

\* C14: a fetch_paper whose well-formed response has an entry lacking a
\* required field gives the caller None; no exception escapes.
C14_BadEntryGivesNone ==
  /\ apc # "raised"
  /\ (WellFormedAnswer /\ xml.entries # <<>> /\ ~xml.entries[1].complete)
       => fetched = None

\* C15: for a well-formed response with no entry element _parse_response
\* returns None and does not raise.
C15_NoEntryGivesNone ==
  (WellFormedAnswer /\ xml.entries = <<>>) => (fetched = None /\ apc # "raised")

\* a fetch was answered with a well-formed feed without entries and main
\* reported the paper as not found
C15_Witness ==
  /\ WellFormedAnswer
  /\ xml.entries = <<>>
  /\ apc = "done"
  /\ paper_saved = <<>>

(***************************************************************************)
(* Properties of the keyword filter                                        *)
(***************************************************************************)
\* the keyword occurs in the characters, letter case disregarded
OccursIgnoringCase(keyword, chars) ==
  \E k \in 0..(Len(chars) - Len(keyword)) :
    \A j \in 1..Len(keyword) :
      LowerChar(chars[k + j]) = LowerChar(keyword[j])

\* the indices of the posts in which some keyword occurs
MatchingIndices(ps) ==
  { i \in 1..Len(ps) :
      \E kw \in Keywords : OccursIgnoringCase(Spell(kw), Formatted(ps[i])) }

\* the n-th smallest element of a set of numbers
NthOf(S, n) == CHOOSE i \in S : Cardinality({ j \in S : j <= i }) = n

\* out is the subsequence of ps at the matching indices, in input order
IsSelection(ps, out) ==
  /\ Len(out) = Cardinality(MatchingIndices(ps))
  /\ \A n \in 1..Len(out) : out[n] = ps[NthOf(MatchingIndices(ps), n)]

\* C16: filter_monadbft_posts is a pure selection: it returns the posts in
\* which some keyword occurs case-insensitively in title, content and tags,
\* in input order; it changes neither its input nor any record and
\* performs no fetch.
C16_FilterIsPureSelection ==
  [][(bpc = "main" /\ filter_on') =>
       /\ IsSelection(posts, to_save')
       /\ posts' = posts
       /\ blog_gets' = blog_gets]_vars

\* the posts "MonadBFT update" and "Cooking tips" were filtered and only
\* the first was kept
C16_Witness ==
  /\ bpc = "save"
  /\ filter_on
  /\ Len(posts) = 2
  /\ posts[1].title = "MonadBFT update"
  /\ posts[2].title = "Cooking tips"
  /\ posts[2].tags = <<>>
  /\ posts[2].content = "text"
  /\ to_save = <<posts[1]>>

(***************************************************************************)
(* Properties of the crawl order                                           *)
(***************************************************************************)
\* the pages within d links of the seed
RECURSIVE Ball(_, _)
Ball(seed, d) ==
  IF d = 0 THEN {seed}
  ELSE LET B == Ball(seed, d - 1)
       IN B \cup UNION { LinkTargets(u) : u \in B }

\* the link distance of page u from the seed
Dist(seed, u) ==
  CHOOSE d \in 0..Cardinality(PageUrls) :
    /\ u \in Ball(seed, d)
    /\ d > 0 => u \notin Ball(seed, d - 1)

\* a crawl has returned and none of its fetches failed
CrawlClean == CrawlReturned /\ returned[crawls].clean

\* C17: the crawl is breadth-first: when every fetch succeeds the record of
\* a page at link distance d from the seed precedes every record of a page
\* at a greater distance.
C17_BreadthFirstOrder ==
  CrawlClean =>
    \A i, j \in 1..Len(pages) :
      Dist(start_url, pages[i].url) < Dist(start_url, pages[j].url) => i < j

TypeOK ==
  /\ pc \in {"idle", "loop", "scrape", "links", "sleep", "raised"}
  /\ visited_urls \subseteq PageUrls
  /\ Range(urls_to_visit) \subseteq PageUrls
====
